---------------------------- MODULE Spec2Model ----------------------------
(***************************************************************************)
(* Model of the DatoCMS MCP server's routing / validation / handler layer: *)
(*   - the project router callback (tools/Project/ProjectRouterTool.ts),   *)
(*   - createFieldHandler (schema field creation),                         *)
(*   - duplicateRecordHandler (record duplication).                        *)
(*                                                                         *)
(* JavaScript strings are modelled as sequences of text fragments, so that *)
(* concatenation is \o and String.prototype.includes is a search for a     *)
(* contiguous run of fragments.  JavaScript values are tagged records.     *)
(***************************************************************************)
EXTENDS Naturals, Sequences, FiniteSets, TLC

VARIABLES rpc, rAction, rArgs, rFault, rInvoked, rOutcome, rResp,
          fpc, fArgs, fPayload, fCreateCalls, fUpstream, fResult,
          dpc, dArgs, dOutcome, dResult

routerVars == <<rpc, rAction, rArgs, rFault, rInvoked, rOutcome, rResp>>
fieldVars  == <<fpc, fArgs, fPayload, fCreateCalls, fUpstream, fResult>>
dupVars    == <<dpc, dArgs, dOutcome, dResult>>
vars       == <<routerVars, fieldVars, dupVars>>

---------------------------------------------------------------------------
(* Bounds of the model *)

\* longest validationErrors list a handler result carries
MaxErrs == 1
\* longest upstream error message, in fragments
MaxMsgLen == 3
\* longest list of enum / option values
MaxVals == 2
\* number of distinct record identifiers
NumIds == 4
\* most keys of a generated validators / parameters object
MaxKeys == 2

---------------------------------------------------------------------------
(* Sequence helpers *)

RECURSIVE Flatten(_)
Flatten(ss) == IF ss = <<>> THEN <<>> ELSE Head(ss) \o Flatten(Tail(ss))

\* Array.prototype.join on an array of strings
RECURSIVE Join(_, _)
Join(ss, sep) ==
  IF ss = <<>> THEN <<>>
  ELSE IF Len(ss) = 1 THEN ss[1]
  ELSE ss[1] \o sep \o Join(Tail(ss), sep)

\* String.prototype.includes
Includes(s, sub) ==
  \E i \in 0..(Len(s) - Len(sub)) : SubSeq(s, i + 1, i + Len(sub)) = sub

RECURSIVE Repeat(_, _)
Repeat(tok, n) == IF n = 0 THEN <<>> ELSE <<tok>> \o Repeat(tok, n - 1)

SeqsUpTo(S, n) == UNION {[1..k -> S] : k \in 0..n}

\* an optional value: <<>> when absent, <<v>> when present
Opt(S) == {<<>>} \cup {<<v>> : v \in S}

---------------------------------------------------------------------------
(* JavaScript values *)

JSUndef   == [t |-> "undefined"]
JSNull    == [t |-> "null"]
JSNum(n)  == [t |-> "number", n |-> n]
JSBool(b) == [t |-> "boolean", b |-> b]
JSStr(s)  == [t |-> "string", s |-> s]
JSArr(xs) == [t |-> "array", items |-> xs]
JSObj(ps) == [t |-> "object", props |-> ps]
JSBig     == [t |-> "bigint"]

\* an object literal from <<key, optional value>> pairs; absent keys are left out
PropsOf(pairs) ==
  LET present == {i \in DOMAIN pairs : pairs[i][2] # <<>>}
  IN  [k \in {pairs[i][1] : i \in present} |->
         pairs[CHOOSE i \in present : pairs[i][1] = k][2][1]]

IsObjectType(v) == v.t \in {"object", "array"}

\* the `in` operator
HasKey(v, k) == v.t = "object" /\ k \in DOMAIN v.props

\* property read: undefined when the key is missing
Get(v, k) == IF HasKey(v, k) THEN v.props[k] ELSE JSUndef

\* ToBoolean
Truthy(v) ==
  CASE v.t = "undefined" -> FALSE
    [] v.t = "null"      -> FALSE
    [] v.t = "number"    -> v.n # "0"
    [] v.t = "boolean"   -> v.b
    [] v.t = "string"    -> v.s # <<>>
    [] OTHER             -> TRUE

\* a || b
OrElse(a, b) == IF Truthy(a) THEN a ELSE b

\* ToString of a primitive, as a template literal ${v} does
RECURSIVE ToStr(_)
ToStr(v) ==
  CASE v.t = "undefined" -> <<"undefined">>
    [] v.t = "null"      -> <<"null">>
    [] v.t = "number"    -> <<v.n>>
    [] v.t = "boolean"   -> IF v.b THEN <<"true">> ELSE <<"false">>
    [] v.t = "string"    -> v.s
    [] v.t = "array"     -> Join([i \in DOMAIN v.items |-> ToStr(v.items[i])], <<",">>)
    [] OTHER             -> <<"[object Object]">>

\* property enumeration order of the objects of the model
KeyOrder == <<"content", "isError", "success", "data", "message", "error",
              "validationErrors", "field", "id", "label", "title", "name", "type",
              "description", "fields", "note">>

OwnKeys(v) == SelectSeq(KeyOrder, LAMBDA k : k \in DOMAIN v.props)

\* JSON.stringify(v, null, 2); the result is undefined for undefined
RECURSIVE Pretty(_, _)
Pretty(v, depth) ==
  CASE v.t = "null"    -> <<"null">>
    [] v.t = "number"  -> <<v.n>>
    [] v.t = "boolean" -> IF v.b THEN <<"true">> ELSE <<"false">>
    [] v.t = "string"  -> <<"\"">> \o v.s \o <<"\"">>
    [] v.t = "array"   ->
         IF v.items = <<>> THEN <<"[]">>
         ELSE <<"[", "\n">>
              \o Join([i \in DOMAIN v.items |->
                         Repeat("  ", depth + 1)
                         \o (IF v.items[i].t = "undefined" THEN <<"null">>
                             ELSE Pretty(v.items[i], depth + 1))],
                      <<",", "\n">>)
              \o <<"\n">> \o Repeat("  ", depth) \o <<"]">>
    [] v.t = "object"  ->
         LET keys == SelectSeq(OwnKeys(v), LAMBDA k : v.props[k].t # "undefined")
         IN  IF keys = <<>> THEN <<"{}">>
             ELSE <<"{", "\n">>
                  \o Join([i \in DOMAIN keys |->
                             Repeat("  ", depth + 1)
                             \o <<"\"", keys[i], "\"", ": ">>
                             \o Pretty(v.props[keys[i]], depth + 1)],
                          <<",", "\n">>)
                  \o <<"\n">> \o Repeat("  ", depth) \o <<"}">>
    [] OTHER -> <<>>

\* JSON.stringify throws a TypeError on a BigInt anywhere in the value
RECURSIVE CanStringify(_)
CanStringify(v) ==
  CASE v.t = "bigint" -> FALSE
    [] v.t = "array"  -> \A i \in DOMAIN v.items : CanStringify(v.items[i])
    [] v.t = "object" -> \A k \in DOMAIN v.props : CanStringify(v.props[k])
    [] OTHER          -> TRUE

JSONStringify(v) == IF v.t = "undefined" THEN JSUndef ELSE JSStr(Pretty(v, 0))

---------------------------------------------------------------------------
(* Response envelopes and error text extraction (utils/) *)

createResponse(v) == JSObj("content" :> v)

createErrorResponse(text) ==
  JSObj(("content" :> JSStr(text)) @@ ("isError" :> JSBool(TRUE)))

\* the message text of a thrown error
extractDetailedErrorInfo(err) == err.message

JSError(name, message) == [name |-> name, message |-> message]

\* completions of a block of code
Return(v)  == [kind |-> "return", value |-> v]
Throw(err) == [kind |-> "throw", err |-> err]

---------------------------------------------------------------------------
(* Project schema registry (tools/Project/schemas) and the validation engine *)

projectActionsList == <<"get_info", "update_site_settings">>

Field(name, type, required) == [name |-> name, type |-> type, required |-> required]

projectSchemas ==
  ("get_info" :>
     [description |-> <<"Get project info">>, describable |-> TRUE,
      fields |-> <<Field("apiToken", "string", TRUE),
                   Field("environment", "string", FALSE)>>])
  @@
  ("update_site_settings" :>
     [description |-> <<>>, describable |-> TRUE,
      fields |-> <<Field("apiToken", "string", TRUE),
                   Field("settings", "object", TRUE),
                   Field("environment", "string", FALSE)>>])

\* projectSchemas[action]: <<>> when the registry has no such action
LookupSchema(action) ==
  IF action \in DOMAIN projectSchemas THEN <<projectSchemas[action]>> ELSE <<>>

ZodError(issues) == [name |-> "ZodError", message |-> <<"ZodError">>, issues |-> issues]

Issue(path, message) == [path |-> path, message |-> message]

\* the issue of one declared field against the argument object, if any
FieldIssue(f, args) ==
  LET v == Get(args, f.name)
  IN  IF v.t = "undefined"
      THEN IF f.required THEN <<Issue(<<f.name>>, <<"Required">>)>> ELSE <<>>
      ELSE IF v.t # f.type
           THEN <<Issue(<<f.name>>, <<"Expected ", f.type, ", received ", v.t>>)>>
           ELSE <<>>

\* schema.parse(args): the validated object (undeclared keys stripped), or a
\* ZodError carrying one issue per violating field, in declaration order
ZodParse(schema, args) ==
  LET issues   == Flatten([i \in DOMAIN schema.fields |-> FieldIssue(schema.fields[i], args)])
      declared == {schema.fields[i].name : i \in DOMAIN schema.fields}
  IN  IF issues = <<>>
      THEN Return(JSObj([k \in DOMAIN args.props \cap declared |-> args.props[k]]))
      ELSE Throw(ZodError(issues))

\* the own enumerable properties of a schema object (what describe() returns a copy of)
SchemaObject(schema) ==
  JSObj(PropsOf(<<
    <<"type", <<JSStr(<<"object">>)>> >>,
    <<"description", IF schema.description = <<>> THEN <<>> ELSE <<JSStr(schema.description)>> >>,
    <<"fields", <<JSArr([i \in DOMAIN schema.fields |->
                     JSObj(("name" :> JSStr(<<schema.fields[i].name>>))
                           @@ ("type" :> JSStr(<<schema.fields[i].type>>)))])>> >>
  >>))

---------------------------------------------------------------------------
(* tools/Project/ProjectRouterTool.ts *)

NoteDetailed    == <<"For more detailed parameter information, use the 'datocms_parameters' tool">>
NoteUnavailable == <<"Schema details unavailable. Use the 'datocms_parameters' tool for parameter information.">>

formatSchemaForDisplay(schema) ==
  LET description == IF schema.description # <<>> THEN schema.description
                     ELSE <<"No description available">>
  IN  IF schema.describable
      THEN JSObj(SchemaObject(schema).props @@ ("note" :> JSStr(NoteDetailed)))
      ELSE JSObj(("type" :> JSStr(<<"object">>))
                 @@ ("description" :> JSStr(description))
                 @@ ("note" :> JSStr(NoteUnavailable)))

IssueLine(issue) == <<"- ">> \o Join([i \in DOMAIN issue.path |-> <<issue.path[i]>>], <<".">>)
                    \o <<": ">> \o issue.message

\* a plausible slip: only the first issue reported
formatZodErrorFirstOnly(error) == IssueLine(error.issues[1])

formatZodError(error) ==
  Join([i \in DOMAIN error.issues |-> IssueLine(error.issues[i])], <<"\n">>)

\* String.prototype.toUpperCase on an action name
ToUpperCase(action) ==
  CASE action = "get_info"             -> "GET_INFO"
    [] action = "update_site_settings" -> "UPDATE_SITE_SETTINGS"
    [] action = "delete_project"       -> "DELETE_PROJECT"
    [] OTHER                           -> action

GuidanceText(action) ==
  <<"PARAMETERS REQUIRED: You need to specify the parameters for the '", action,
    "' action.\n\nTo get the required parameters, use the datocms_parameters tool first with:\n{\n  \"resource\": \"project\",\n  \"action\": \"",
    action, "\"\n}\n\nThis will show you all the required parameters and their types.">>

UnsupportedText(action) ==
  <<"Error: Unsupported action '", action, "'. Valid actions are: ">>
  \o Join([i \in DOMAIN projectActionsList |-> <<projectActionsList[i]>>], <<", ">>)

ValidationErrorText(action, errorFormatted, schemaInfo) ==
  <<"VALIDATION ERROR: Your parameters for '", action, "' are incorrect or incomplete!\n\n">>
  \o errorFormatted
  \o <<"\n\nREQUIRED PARAMETERS FOR '", ToUpperCase(action), "' ACTION:\n">>
  \o JSONStringify(schemaInfo).s
  \o <<"\n\nTo see proper documentation, use the 'datocms_parameters' tool first with:\n\n  action: \"datocms_parameters\",\n  args: {\n    resource: \"project\",\n    action: \"",
       action, "\"\n  }">>

\* a plausible slip: the test made on the raw parameter, before its default
shouldSuggestParamsOnlyIfMissing(args) == args.t = "undefined"

\* the empty-argument test of the callback
shouldSuggestParams(args) == DOMAIN args.props = {}

Await(handler, validatedArgs) ==
  [kind |-> "await", handler |-> handler, args |-> validatedArgs]

\* a plausible slip: the handlers of the two cases exchanged
DispatchSwapped(action, validatedArgs) ==
  CASE action = "get_info"             -> Await("updateSiteSettingsHandler", validatedArgs)
    [] action = "update_site_settings" -> Await("getProjectInfoHandler", validatedArgs)
    [] OTHER -> Throw(JSError("Error", <<"Unhandled project action: ", action>>))

\* the dispatch switch; its default branch is the exhaustiveness check
Dispatch(action, validatedArgs) ==
  CASE action = "get_info"             -> Await("getProjectInfoHandler", validatedArgs)
    [] action = "update_site_settings" -> Await("updateSiteSettingsHandler", validatedArgs)
    [] OTHER -> Throw(JSError("Error", <<"Unhandled project action: ", action>>))

ValidationErrorLine(err) ==
  <<"  - ">> \o ToStr(OrElse(Get(err, "field"), JSStr(<<"General">>)))
  \o <<": ">> \o ToStr(Get(err, "message"))

SerializationError == JSError("TypeError", <<"Do not know how to serialize a BigInt">>)

\* the rendering of a {success, ...} result
NormalizeTyped(handlerResult) ==
  LET data    == OrElse(Get(handlerResult, "data"), JSObj(<<>>))
      message == Get(handlerResult, "message")
      error   == Get(handlerResult, "error")
      verrs   == Get(handlerResult, "validationErrors")
  IN  IF Truthy(Get(handlerResult, "success"))
      THEN IF ~CanStringify(data) THEN Throw(SerializationError)
           ELSE LET responseContent == JSONStringify(data).s
                IN  IF Truthy(message)
                    THEN Return(createResponse(
                           JSStr(responseContent \o <<"\n\n">> \o ToStr(message))))
                    ELSE Return(createResponse(JSStr(responseContent)))
      ELSE IF Truthy(verrs) /\ Len(verrs.items) > 0
           THEN Return(createErrorResponse(
                  ToStr(OrElse(error, JSStr(<<"Validation failed">>)))
                  \o <<"\n\nValidation errors:\n">>
                  \o Join([i \in DOMAIN verrs.items |->
                             ValidationErrorLine(verrs.items[i])], <<"\n">>)))
           ELSE Return(createErrorResponse(
                  ToStr(OrElse(error, JSStr(<<"Unknown error occurred">>)))))

\* the fallback for the other values
NormalizeRaw(handlerResult) ==
  IF ~CanStringify(handlerResult) THEN Throw(SerializationError)
  ELSE Return(createResponse(JSONStringify(handlerResult)))

\* a plausible slip: the success flag looked at before the content key
NormalizeSuccessFirst(handlerResult) ==
  IF Truthy(handlerResult) /\ IsObjectType(handlerResult) /\ HasKey(handlerResult, "success")
  THEN NormalizeTyped(handlerResult)
  ELSE IF Truthy(handlerResult) /\ IsObjectType(handlerResult) /\ HasKey(handlerResult, "content")
  THEN Return(handlerResult)
  ELSE NormalizeRaw(handlerResult)

\* conversion of the value a handler resolved to into the response
Normalize(handlerResult) ==
  IF Truthy(handlerResult) /\ IsObjectType(handlerResult) /\ HasKey(handlerResult, "content")
  THEN Return(handlerResult)
  ELSE IF Truthy(handlerResult) /\ IsObjectType(handlerResult) /\ HasKey(handlerResult, "success")
  THEN NormalizeTyped(handlerResult)
  ELSE NormalizeRaw(handlerResult)

\* the inner try block up to the handler call
InnerTryStart(action, schema, args, fault) ==
  IF fault = "parse"
  THEN Throw(JSError("Error", <<"schema refinement threw">>))
  ELSE LET parsed == ZodParse(schema, args)
       IN  IF parsed.kind = "throw" THEN parsed ELSE Dispatch(action, parsed.value)

\* the inner try block from the point the handler settles
InnerTryResume(outcome) ==
  IF outcome.kind = "throw" THEN outcome ELSE Normalize(outcome.value)

\* catch (error) of the inner try
InnerCatch(action, schema, fault, c) ==
  IF c.kind # "throw" THEN c
  ELSE IF c.err.name = "ZodError"
       THEN IF fault = "format"
            THEN Throw(JSError("TypeError", <<"Converting circular structure to JSON">>))
            ELSE Return(createErrorResponse(
                   ValidationErrorText(action, formatZodError(c.err),
                                       formatSchemaForDisplay(schema))))
       ELSE Return(createErrorResponse(
              <<"Error validating arguments: ">> \o extractDetailedErrorInfo(c.err)))

\* a plausible slip: no outer catch, the error propagates
OuterCatchRethrows(c) == c

\* catch (error: unknown) of the outer try
OuterCatch(c) ==
  IF c.kind = "throw"
  THEN Return(createErrorResponse(
         <<"Error in Project Router: ">> \o extractDetailedErrorInfo(c.err)))
  ELSE c

\* the callback from its entry to its first suspension or return
RouterStart(action, rawArgs, fault) ==
  LET args == IF rawArgs.t = "undefined" THEN JSObj(<<>>) ELSE rawArgs
  IN  OuterCatch(
        IF args.t = "null"
        THEN Throw(JSError("TypeError", <<"Cannot convert undefined or null to object">>))
        ELSE IF shouldSuggestParams(args)
        THEN Return(createErrorResponse(GuidanceText(action)))
        ELSE LET actionSchema == LookupSchema(action)
             IN  IF actionSchema = <<>>
                 THEN Return(createErrorResponse(UnsupportedText(action)))
                 ELSE InnerCatch(action, actionSchema[1], fault,
                                 InnerTryStart(action, actionSchema[1], args, fault)))

\* the callback from the handler's settling to its return
RouterResume(action, fault, outcome) ==
  OuterCatch(InnerCatch(action, projectSchemas[action], fault, InnerTryResume(outcome)))

---------------------------------------------------------------------------
(* Inputs of the router *)

Actions == {"get_info", "update_site_settings", "delete_project"}

ArgValues == {JSStr(<<"v">>), JSNum("7"), JSObj(<<>>)}

ArgObjects ==
  {JSObj(PropsOf(<< <<"apiToken", a>>, <<"environment", e>>, <<"settings", s>>, <<"extra", x>> >>)) :
     a \in Opt(ArgValues), e \in Opt(ArgValues), s \in Opt(ArgValues),
     x \in Opt({JSStr(<<"v">>)})}

RawArgs == {JSUndef, JSNull} \cup ArgObjects

\* exceptions of the code outside this file: "parse" makes schema.parse throw
\* something other than a ZodError, "format" makes the rendering of the
\* validation error throw
Faults == {"none", "parse", "format"}

SiteData == JSObj(("id" :> JSStr(<<"site1">>)) @@ ("name" :> JSStr(<<"My Site">>)))

PrebuiltContent == JSStr(<<"prebuilt">>)

ValidationErrorItems ==
  {JSObj(("field" :> JSStr(<<"settings.name">>)) @@ ("message" :> JSStr(<<"is too long">>))),
   JSObj("message" :> JSStr(<<"is invalid">>))}

HandlerObjects ==
  {JSObj(PropsOf(<< <<"content", c>>, <<"success", s>>, <<"data", d>>, <<"message", m>>,
                    <<"error", e>>, <<"validationErrors", v>> >>)) :
     c \in Opt({PrebuiltContent}),
     s \in Opt({JSBool(TRUE), JSBool(FALSE)}),
     d \in Opt({SiteData, JSNum("0"), JSBig}),
     m \in Opt({JSStr(<<"Settings updated">>)}),
     e \in Opt({JSStr(<<"Update rejected">>)}),
     v \in Opt({JSArr(xs) : xs \in SeqsUpTo(ValidationErrorItems, MaxErrs)})}

HandlerResults ==
  {JSUndef, JSNull, JSNum("7"), JSStr(<<"plain text">>), JSBig, JSArr(<<SiteData>>)}
  \cup HandlerObjects

HandlerErrors ==
  {JSError("Error", <<"API token is invalid">>),
   ZodError(<<Issue(<<"settings", "name">>, <<"Required">>)>>)}

HandlerOutcomes == {Return(v) : v \in HandlerResults} \cup {Throw(e) : e \in HandlerErrors}

---------------------------------------------------------------------------
(* The router as a state machine *)

RouterIdle ==
  /\ rpc = "idle" /\ rAction = "" /\ rArgs = JSUndef /\ rFault = "none"
  /\ rInvoked = <<>> /\ rOutcome = <<>> /\ rResp = <<>>

\* the transport invokes the callback; it runs to its return or to the handler call
RouteCall ==
  /\ rpc = "idle"
  /\ \E action \in Actions, rawArgs \in RawArgs, fault \in Faults :
       LET c == RouterStart(action, rawArgs, fault)
       IN  /\ rAction' = action
           /\ rArgs' = rawArgs
           /\ rFault' = fault
           /\ rOutcome' = <<>>
           /\ rInvoked' = IF c.kind = "await"
                          THEN <<[handler |-> c.handler, args |-> c.args]>> ELSE <<>>
           /\ rResp' = IF c.kind = "return" THEN <<c.value>> ELSE <<>>
           /\ rpc' = CASE c.kind = "await"  -> "awaitHandler"
                       [] c.kind = "return" -> "returned"
                       [] OTHER             -> "escaped"
  /\ UNCHANGED <<fieldVars, dupVars>>

\* the awaited handler resolves or rejects; the callback runs to its return
HandlerSettles ==
  /\ rpc = "awaitHandler"
  /\ \E outcome \in HandlerOutcomes :
       LET c == RouterResume(rAction, rFault, outcome)
       IN  /\ rOutcome' = <<outcome>>
           /\ rResp' = IF c.kind = "return" THEN <<c.value>> ELSE <<>>
           /\ rpc' = IF c.kind = "return" THEN "returned" ELSE "escaped"
  /\ UNCHANGED <<rAction, rArgs, rFault, rInvoked, fieldVars, dupVars>>

\* the call is over; the router holds no state across calls
RouteDone ==
  /\ rpc \in {"returned", "escaped"}
  /\ rpc' = "idle" /\ rAction' = "" /\ rArgs' = JSUndef /\ rFault' = "none"
  /\ rInvoked' = <<>> /\ rOutcome' = <<>> /\ rResp' = <<>>
  /\ UNCHANGED <<fieldVars, dupVars>>

---------------------------------------------------------------------------
(* createFieldHandler: business rules, appearance normalisation, payload *)

Str(tok) == JSStr(<<tok>>)

IsArray(v) == v.t = "array"

\* { ...a, ...b }
Spread(a, b) == JSObj(b.props @@ a.props)

EmptyObj == JSObj(<<>>)

MsgRichTextBlocks ==
  <<"Missing required validator '", "rich_text_blocks", "' for rich_text field. ",
    "Add { \"rich_text_blocks\": { \"item_types\": [\"block_model_id1\", \"block_model_id2\"] } } to validators.">>
MsgStructuredTextBlocks ==
  <<"Missing required validator '", "structured_text_blocks", "' for structured_text field. ",
    "Add { \"structured_text_blocks\": { \"item_types\": [] } } to validators.">>
MsgSingleBlockBlocks ==
  <<"Missing required validator '", "single_block_blocks", "' for single_block field. ",
    "Add { \"single_block_blocks\": { \"item_types\": [] } } to validators.">>
MsgEnumMissing(editor) ==
  <<"Missing required validator '", "enum", "' for string field with ">> \o editor
  \o <<" editor. ", "Add { \"enum\": { \"values\": [...] } } to validators, and ensure values match the options.">>
MsgEnumMismatch ==
  <<"Validator enum values must exactly match the option values in appearance.parameters.">>
MsgItemItemTypeMissing ==
  <<"Missing required validator '", "item_", "item_type", "' for link field. ",
    "Add { \"item_item_type\": { \"item_types\": [\"your_item_type_id\"] } } to validators.">>
MsgItemItemTypeEmpty ==
  <<"The '", "item_", "item_type", "' validator must include an 'item_types' array with at least one valid item type ID.">>
MsgItemsItemTypeMissing ==
  <<"Missing required validator '", "items_", "item_type", "' for links field. ",
    "Add { \"items_item_type\": { \"item_types\": [\"your_item_type_id\"] } } to validators.">>
MsgItemsItemTypeEmpty ==
  <<"The '", "items_", "item_type", "' validator must include an 'item_types' array with at least one valid item type ID.">>
MsgRequiredUnsupported ==
  <<"The 'required' validator is not supported on gallery, links, or rich_text fields. Remove it from the validators object.">>
MsgSlugTitleField ==
  <<"Missing required validator '", "slug_title_field", "' for slug field. ",
    "Add { \"slug_title_field\": { \"title_field_id\": \"<field_id>\" } } to validators.">>

\* !validators || !validators[key]
LacksValidator(validators, key) == ~Truthy(validators) \/ ~Truthy(Get(validators, key))

IsChoiceEditor(appearance) ==
  Get(appearance, "editor") \in {Str("string_radio_group"), Str("string_select")}

\* the in-place default of parameters.heading for a single_line string field
HeadingDefaulted(field_type, appearance) ==
  IF field_type = "string" /\ Truthy(appearance) /\ Get(appearance, "editor") = Str("single_line")
  THEN IF ~Truthy(Get(appearance, "parameters"))
       THEN JSObj(("parameters" :> JSObj("heading" :> JSBool(FALSE))) @@ appearance.props)
       ELSE IF Get(Get(appearance, "parameters"), "heading") = JSUndef
            THEN JSObj(("parameters" :>
                          JSObj(("heading" :> JSBool(FALSE)) @@ appearance.props["parameters"].props))
                       @@ appearance.props)
            ELSE appearance
  ELSE appearance

\* the values offered by the selection editor: radios, else options, else none
OptionValues(appearance) ==
  LET parameters == OrElse(Get(appearance, "parameters"), EmptyObj)
      list == OrElse(Get(parameters, "radios"), OrElse(Get(parameters, "options"), JSArr(<<>>)))
  IN  [i \in DOMAIN list.items |-> Get(list.items[i], "value")]

EnumMismatch(validators, appearance) ==
  LET optionValues == OptionValues(appearance)
      enumValues   == Get(Get(validators, "enum"), "values").items
  IN  \/ Len(optionValues) # Len(enumValues)
      \/ \E idx \in DOMAIN optionValues : optionValues[idx] # enumValues[idx]

\* validators.<key> is set but its item_types is no array or an empty one
BadItemTypes(validators, key) ==
  /\ Truthy(Get(validators, key))
  /\ \/ ~IsArray(Get(Get(validators, key), "item_types"))
     \/ Len(Get(Get(validators, key), "item_types").items) = 0

\* Each `if (...) throw` of the handler: <<>> when it does not throw, else
\* <<message of the error thrown>>
CheckRichTextBlocks(field_type, validators, appearance) ==
  IF field_type = "rich_text" /\ LacksValidator(validators, "rich_text_blocks")
  THEN <<MsgRichTextBlocks>> ELSE <<>>

CheckStructuredTextBlocks(field_type, validators, appearance) ==
  IF field_type = "structured_text" /\ LacksValidator(validators, "structured_text_blocks")
  THEN <<MsgStructuredTextBlocks>> ELSE <<>>

CheckSingleBlockBlocks(field_type, validators, appearance) ==
  IF field_type = "single_block" /\ LacksValidator(validators, "single_block_blocks")
  THEN <<MsgSingleBlockBlocks>> ELSE <<>>

CheckEnumPresent(field_type, validators, appearance) ==
  IF /\ field_type = "string" /\ Truthy(appearance) /\ IsChoiceEditor(appearance)
     /\ LacksValidator(validators, "enum")
  THEN <<MsgEnumMissing(Get(appearance, "editor").s)>> ELSE <<>>

CheckEnumMatches(field_type, validators, appearance) ==
  IF /\ field_type = "string" /\ Truthy(appearance) /\ IsChoiceEditor(appearance)
     /\ Truthy(validators) /\ Truthy(Get(validators, "enum"))
     /\ IsArray(Get(Get(validators, "enum"), "values"))
     /\ EnumMismatch(validators, appearance)
  THEN <<MsgEnumMismatch>> ELSE <<>>

CheckItemItemTypePresent(field_type, validators, appearance) ==
  IF field_type = "link" /\ LacksValidator(validators, "item_item_type")
  THEN <<MsgItemItemTypeMissing>> ELSE <<>>

CheckItemItemTypeFilled(field_type, validators, appearance) ==
  IF field_type = "link" /\ BadItemTypes(validators, "item_item_type")
  THEN <<MsgItemItemTypeEmpty>> ELSE <<>>

CheckItemsItemTypePresent(field_type, validators, appearance) ==
  IF field_type = "links" /\ LacksValidator(validators, "items_item_type")
  THEN <<MsgItemsItemTypeMissing>> ELSE <<>>

CheckItemsItemTypeFilled(field_type, validators, appearance) ==
  IF field_type = "links" /\ BadItemTypes(validators, "items_item_type")
  THEN <<MsgItemsItemTypeEmpty>> ELSE <<>>

CheckRequiredSupported(field_type, validators, appearance) ==
  IF /\ Truthy(validators) /\ Get(validators, "required") # JSUndef
     /\ field_type \in {"gallery", "links", "rich_text"}
  THEN <<MsgRequiredUnsupported>> ELSE <<>>

CheckSlugTitleField(field_type, validators, appearance) ==
  IF field_type = "slug" /\ LacksValidator(validators, "slug_title_field")
  THEN <<MsgSlugTitleField>> ELSE <<>>

\* the outcome of consecutive throwing statements: that of the first that throws
RECURSIVE FirstThrown(_)
FirstThrown(checks) ==
  IF checks = <<>> THEN <<>>
  ELSE IF Head(checks) # <<>> THEN Head(checks)
  ELSE FirstThrown(Tail(checks))

\* a plausible slip: the 'required' check moved to the top of the handler
RulesRequiredFirst(field_type, validators, appearance) ==
  FirstThrown(<<CheckRequiredSupported(field_type, validators, appearance),
                CheckRichTextBlocks(field_type, validators, appearance),
                CheckStructuredTextBlocks(field_type, validators, appearance),
                CheckSingleBlockBlocks(field_type, validators, appearance),
                CheckEnumPresent(field_type, validators, appearance),
                CheckEnumMatches(field_type, validators, appearance),
                CheckItemItemTypePresent(field_type, validators, appearance),
                CheckItemItemTypeFilled(field_type, validators, appearance),
                CheckItemsItemTypePresent(field_type, validators, appearance),
                CheckItemsItemTypeFilled(field_type, validators, appearance)>>)

\* the checks that precede the appearance processing, in source order
RulesBeforeAppearance(field_type, validators, appearance) ==
  FirstThrown(<<CheckRichTextBlocks(field_type, validators, appearance),
                CheckStructuredTextBlocks(field_type, validators, appearance),
                CheckSingleBlockBlocks(field_type, validators, appearance),
                CheckEnumPresent(field_type, validators, appearance),
                CheckEnumMatches(field_type, validators, appearance),
                CheckItemItemTypePresent(field_type, validators, appearance),
                CheckItemItemTypeFilled(field_type, validators, appearance),
                CheckItemsItemTypePresent(field_type, validators, appearance),
                CheckItemsItemTypeFilled(field_type, validators, appearance),
                CheckRequiredSupported(field_type, validators, appearance)>>)

\* a plausible slip: the addons default left out
WithAddonsSkipped(appearance) == appearance

\* appearance with addons defaulted to an empty list
WithAddons(appearance) ==
  IF Truthy(appearance) /\ ~Truthy(Get(appearance, "addons"))
  THEN Spread(appearance, JSObj("addons" :> JSArr(<<>>)))
  ELSE appearance

\* a plausible slip: the rename left out
WithMapEditorSkipped(field_type, processedAppearance) == processedAppearance

\* the lat_lon editor rename
WithMapEditor(field_type, processedAppearance) ==
  IF /\ field_type = "lat_lon" /\ Truthy(processedAppearance)
     /\ Get(processedAppearance, "editor") = Str("lat_lon_editor")
  THEN Spread(processedAppearance, JSObj("editor" :> Str("map")))
  ELSE processedAppearance

\* a plausible slip: the spread written first, so that the default overrides
\* the caller's enable_alpha
WithColorPickerForcedAlpha(field_type, processedAppearance) ==
  IF field_type = "color"
  THEN JSObj(("editor" :> Str("color_picker"))
             @@ ("parameters" :>
                   Spread(OrElse(Get(processedAppearance, "parameters"), EmptyObj),
                          JSObj("enable_alpha" :> JSBool(FALSE))))
             @@ ("addons" :> OrElse(Get(processedAppearance, "addons"), JSArr(<<>>))))
  ELSE processedAppearance

\* the forced appearance of color fields
WithColorPicker(field_type, processedAppearance) ==
  IF field_type = "color"
  THEN JSObj(("editor" :> Str("color_picker"))
             @@ ("parameters" :>
                   Spread(JSObj("enable_alpha" :> JSBool(FALSE)),
                          OrElse(Get(processedAppearance, "parameters"), EmptyObj)))
             @@ ("addons" :> OrElse(Get(processedAppearance, "addons"), JSArr(<<>>))))
  ELSE processedAppearance

\* the forced appearance of structured_text fields
WithStructuredText(field_type, processedAppearance) ==
  IF field_type = "structured_text"
  THEN JSObj(("editor" :> Str("structured_text"))
             @@ ("parameters" :>
                   Spread(JSObj(("blocks_start_collapsed" :> JSBool(FALSE))
                                @@ ("show_links_target_blank" :> JSBool(TRUE))
                                @@ ("show_links_meta_editor" :> JSBool(TRUE))),
                          OrElse(Get(processedAppearance, "parameters"), EmptyObj)))
             @@ ("addons" :> OrElse(Get(processedAppearance, "addons"), JSArr(<<>>))))
  ELSE processedAppearance

ProcessAppearance(field_type, appearance) ==
  WithStructuredText(field_type,
    WithColorPicker(field_type,
      WithMapEditor(field_type, WithAddons(appearance))))

getDefaultEditor(fieldType) ==
  CASE fieldType = "string"          -> "single_line"
    [] fieldType = "text"            -> "textarea"
    [] fieldType = "rich_text"       -> "rich_text"
    [] fieldType = "structured_text" -> "structured_text"
    [] fieldType = "boolean"         -> "boolean"
    [] fieldType = "integer"         -> "integer"
    [] fieldType = "float"           -> "float"
    [] fieldType = "date"            -> "date_picker"
    [] fieldType = "date_time"       -> "date_time_picker"
    [] fieldType = "file"            -> "file"
    [] fieldType = "gallery"         -> "gallery"
    [] fieldType = "link"            -> "link_select"
    [] fieldType = "links"           -> "links_select"
    [] fieldType = "color"           -> "color_picker"
    [] fieldType = "json"            -> "json_editor"
    [] fieldType = "lat_lon"         -> "map"
    [] fieldType = "seo"             -> "seo"
    [] fieldType = "video"           -> "video"
    [] fieldType = "slug"            -> "slug"
    [] fieldType = "single_block"    -> "framed_single_block"
    [] OTHER                         -> "default_editor"

\* the attribute object handed to client.fields.create
FieldData(args, processedAppearance) ==
  [label      |-> args.label,
   field_type |-> args.field_type,
   validators |-> OrElse(args.validators, EmptyObj),
   appearance |-> OrElse(processedAppearance,
                         JSObj(("editor" :> Str(getDefaultEditor(args.field_type)))
                               @@ ("parameters" :> EmptyObj)
                               @@ ("addons" :> JSArr(<<>>))))]

\* the handler up to the client call: the error it throws, or the request it sends
FieldHandlerStart(args) ==
  LET appearance == HeadingDefaulted(args.field_type, args.appearance)
      early      == RulesBeforeAppearance(args.field_type, args.validators, appearance)
  IN  IF early # <<>>
      THEN Throw(JSError("Error", early[1]))
      ELSE IF CheckSlugTitleField(args.field_type, args.validators, appearance) # <<>>
      THEN Throw(JSError("Error", MsgSlugTitleField))
      ELSE [kind |-> "await", itemTypeId |-> args.itemTypeId,
            fieldData |-> FieldData(args, ProcessAppearance(args.field_type, appearance))]

---------------------------------------------------------------------------
(* createFieldHandler: the client call and the rewriting of its failures *)

SigAddons          == <<"addons">>
SigRichTextBlocks  == <<"rich_text_blocks">>
SigStartCollapsed  == <<"start_collapsed">>
SigItemItemType    == <<"item_", "item_type">>
SigItemsItemType   == <<"items_", "item_type">>
SigEditor          == <<"appearance.editor">>
SigInvalidFormat   == <<"INVALID_FORMAT">>
SigInvalidField    == <<"INVALID_FIELD">>

ErrAddons ==
  <<"The 'addons' field is required in appearance object. ",
    "Always include it, at minimum as an empty array: { \"addons\": [] }">>
ErrRichTextBlocks ==
  <<"Rich text fields require the 'rich_text_blocks' validator. ",
    "Example: { \"rich_text_blocks\": { \"item_types\": [\"block_model_id1\", \"block_model_id2\"] } }">>
ErrStartCollapsed ==
  <<"The 'start_collapsed' parameter is valid for rich_text and single_block fields. ",
    "For structured_text fields use 'blocks_start_collapsed'. ",
    "Ensure you only include this parameter with the appropriate field types.">>
ErrItemItemType ==
  <<"The item type IDs provided in 'item_item_type' are invalid or inaccessible. Verify the IDs and try again.">>
ErrItemsItemType ==
  <<"The item type IDs provided in 'items_item_type' are invalid or inaccessible. Verify the IDs and try again.">>
ErrColor ==
  <<"Error creating color field. Use appearance.editor 'color_picker' and set parameters.enable_alpha to false.">>
ErrLatLonEditor(errorMessage) ==
  <<"Error creating lat_lon field: Make sure you're using \"editor\": \"map\" (not \"lat_lon_editor\") in the appearance. ">>
  \o errorMessage
ErrJsonEditor(errorMessage) ==
  <<"Error creating json field: Make sure you're using one of: \"json_editor\", \"string_multi_select\", or \"string_checkbox_group\" as the editor. ">>
  \o errorMessage
ErrOtherEditor(field_type, errorMessage) ==
  <<"Error with field editor: Invalid editor for field type ", field_type,
    ". Check docs/FIELD_CREATION_GUIDE.md for the correct editor names. ">>
  \o errorMessage
ErrInvalidConfiguration(field_type, editor, errorMessage) ==
  <<"Error creating field: The field configuration is invalid. COMMON ISSUES AND SOLUTIONS ...",
    "Field Type: ", field_type, "\nEditor: ">> \o editor \o <<"\nError Details: ">> \o errorMessage
ErrGeneric(errorMessage) == <<"Error creating field: ">> \o errorMessage

\* the catch block around client.fields.create: the message of the error it throws
RewriteUpstreamError(args, errorMessage) ==
  IF Includes(errorMessage, SigAddons) THEN ErrAddons
  ELSE IF Includes(errorMessage, SigRichTextBlocks) THEN ErrRichTextBlocks
  ELSE IF Includes(errorMessage, SigStartCollapsed) THEN ErrStartCollapsed
  ELSE IF Includes(errorMessage, SigItemItemType) THEN ErrItemItemType
  ELSE IF Includes(errorMessage, SigItemsItemType) THEN ErrItemsItemType
  ELSE IF args.field_type = "color" THEN ErrColor
  ELSE IF Includes(errorMessage, SigEditor)
  THEN IF args.field_type = "lat_lon" THEN ErrLatLonEditor(errorMessage)
       ELSE IF args.field_type = "json" THEN ErrJsonEditor(errorMessage)
       ELSE ErrOtherEditor(args.field_type, errorMessage)
  ELSE IF Includes(errorMessage, SigInvalidFormat) \/ Includes(errorMessage, SigInvalidField)
  THEN ErrInvalidConfiguration(
         args.field_type,
         ToStr(OrElse(Get(args.appearance, "editor"), Str("not specified"))),
         errorMessage)
  ELSE ErrGeneric(errorMessage)

\* the response for a created field
FieldCreated(field) ==
  createResponse(JSObj(
    ("success" :> JSBool(TRUE))
    @@ ("data" :> field)
    @@ ("message" :> JSStr(<<"Field '">> \o ToStr(Get(field, "label"))
                           \o <<"' created successfully with ID: ">> \o ToStr(Get(field, "id"))))))

\* the handler from the settling of client.fields.create on
FieldHandlerResume(args, outcome) ==
  IF outcome.kind = "return"
  THEN Return(FieldCreated(outcome.value))
  ELSE Throw(JSError("Error", RewriteUpstreamError(args, extractDetailedErrorInfo(outcome.err))))

---------------------------------------------------------------------------
(* Inputs of createFieldHandler *)

FieldTypes == {"string", "text", "rich_text", "structured_text", "single_block",
               "link", "links", "gallery", "color", "lat_lon", "slug", "json"}

ValueLists == SeqsUpTo({"a", "b"}, MaxVals)

ItemTypes(ids) == JSObj("item_types" :> ids)

ItemTypeShapes ==
  {EmptyObj, ItemTypes(Str("model1")), ItemTypes(JSArr(<<>>)), ItemTypes(JSArr(<<Str("model1")>>))}

EnumShapes ==
  {EmptyObj, JSObj("values" :> Str("a"))}
  \cup {JSObj("values" :> JSArr([i \in DOMAIN l |-> Str(l[i])])) : l \in ValueLists}

\* the validator declarations the handler reads, each with the shapes it may take
ValidatorShapes ==
  [rich_text_blocks       |-> {ItemTypes(JSArr(<<Str("block1")>>))},
   structured_text_blocks |-> {ItemTypes(JSArr(<<>>))},
   single_block_blocks    |-> {ItemTypes(JSArr(<<>>))},
   enum                   |-> {EmptyObj, JSObj("values" :> JSArr(<<Str("a")>>))},
   item_item_type         |-> ItemTypeShapes,
   items_item_type        |-> ItemTypeShapes,
   required               |-> {EmptyObj},
   slug_title_field       |-> {JSObj("title_field_id" :> Str("field1"))}]

\* every object over at most n of the keys of shapes
ObjectsOver(shapes, n) ==
  UNION {{JSObj(f) : f \in {g \in [ks -> UNION {shapes[k] : k \in ks}] :
                              \A k \in ks : g[k] \in shapes[k]}}
         : ks \in {x \in SUBSET DOMAIN shapes : Cardinality(x) <= n}}

Choices(l) == JSArr([i \in DOMAIN l |->
                       JSObj(("label" :> Str("Option")) @@ ("value" :> Str(l[i])))])

Addon == JSObj("id" :> Str("addon1"))

AddonsOpts == Opt({JSArr(<<>>), JSArr(<<Addon>>)})

Appearance(editor, parameters, addons) ==
  JSObj(PropsOf(<< <<"editor", <<Str(editor)>> >>, <<"parameters", parameters>>,
                   <<"addons", addons>> >>))

FieldArgs(field_type, validators, appearance) ==
  [itemTypeId |-> "model1", label |-> "Title", field_type |-> field_type,
   validators |-> validators, appearance |-> appearance]

\* calls that vary the validators of every kind of field
RuleInputs ==
  {FieldArgs(ft, v, a) :
     ft \in FieldTypes,
     v \in {JSUndef} \cup ObjectsOver(ValidatorShapes, MaxKeys),
     a \in {JSUndef} \cup {Appearance(e, <<>>, <<>>) : e \in {"single_line", "string_select"}}}

\* calls that vary the enum validator against the choices of a selection editor
ChoiceInputs ==
  {FieldArgs("string", v, Appearance(e, p, <<JSArr(<<>>)>>)) :
     v \in {JSUndef} \cup ObjectsOver([enum |-> EnumShapes, required |-> {EmptyObj}], MaxKeys),
     e \in {"string_radio_group", "string_select"},
     p \in Opt(ObjectsOver([radios  |-> {Choices(l) : l \in ValueLists},
                            options |-> {Choices(l) : l \in SeqsUpTo({"a", "b"}, 1)}],
                           MaxKeys))}

\* validators that satisfy the rule of the field's own kind
PassingValidators(ft) ==
  CASE ft = "rich_text"       -> JSObj("rich_text_blocks" :> ItemTypes(JSArr(<<Str("block1")>>)))
    [] ft = "structured_text" -> JSObj("structured_text_blocks" :> ItemTypes(JSArr(<<>>)))
    [] ft = "single_block"    -> JSObj("single_block_blocks" :> ItemTypes(JSArr(<<>>)))
    [] ft = "link"            -> JSObj("item_item_type" :> ItemTypes(JSArr(<<Str("model1")>>)))
    [] ft = "links"           -> JSObj("items_item_type" :> ItemTypes(JSArr(<<Str("model1")>>)))
    [] ft = "slug"            -> JSObj("slug_title_field" :> JSObj("title_field_id" :> Str("field1")))
    [] OTHER                  -> EmptyObj

ParameterShapes ==
  [heading                |-> {JSBool(TRUE)},
   enable_alpha           |-> {JSBool(TRUE), JSBool(FALSE)},
   placeholder            |-> {Str("hint")},
   blocks_start_collapsed |-> {JSBool(TRUE)}]

Editors == {"single_line", "lat_lon_editor", "map", "color_picker", "wysiwyg"}

\* calls that vary the appearance of every kind of field
AppearanceInputs ==
  {FieldArgs(ft, IF passing THEN PassingValidators(ft) ELSE JSUndef, a) :
     ft \in FieldTypes,
     passing \in BOOLEAN,
     a \in {JSUndef} \cup {Appearance(e, p, ad) :
                             e \in Editors,
                             p \in Opt(ObjectsOver(ParameterShapes, MaxKeys)),
                             ad \in AddonsOpts}}

\* calls without appearance, for kinds the editor table lists and one it lacks
DefaultEditorInputs ==
  {FieldArgs(ft, JSUndef, JSUndef) :
     ft \in {"boolean", "integer", "float", "date", "date_time", "file", "seo", "video",
             "unknown_kind"}}

FieldInputs == RuleInputs \cup ChoiceInputs \cup AppearanceInputs \cup DefaultEditorInputs

CreatedField == JSObj(("id" :> Str("field42")) @@ ("label" :> Str("Title")))

\* the settlings of client.fields.create explored with FieldInputs
CreateOutcomes ==
  {Return(CreatedField), Throw(JSError("ApiError", <<"422 ", "INVALID_FIELD">>))}

\* fragments an upstream error message is made of
Fragments == {"addons", "rich_text_blocks", "start_collapsed", "item_", "items_",
              "item_type", "appearance.editor", "INVALID_FORMAT", "INVALID_FIELD",
              "422 "}

UpstreamFailures == {Throw(JSError("ApiError", m)) : m \in SeqsUpTo(Fragments, MaxMsgLen)}

\* the calls explored with UpstreamFailures
UpstreamInputs ==
  {FieldArgs(ft, PassingValidators(ft), a) :
     ft \in {"string", "link", "color", "lat_lon", "json"},
     a \in {JSUndef, Appearance("map", <<>>, <<JSArr(<<>>)>>)}}

---------------------------------------------------------------------------
(* createFieldHandler as a state machine *)

FieldIdle ==
  /\ fpc = "idle" /\ fArgs = <<>> /\ fPayload = <<>> /\ fCreateCalls = 0
  /\ fUpstream = <<>> /\ fResult = <<>>

\* the handler is called; it throws, or sends the request and awaits the client
FieldCall(inputs) ==
  /\ fpc = "idle"
  /\ \E args \in inputs :
       LET c == FieldHandlerStart(args)
       IN  /\ fArgs' = <<args>>
           /\ fUpstream' = <<>>
           /\ IF c.kind = "await"
              THEN /\ fpc' = "awaitCreate"
                   /\ fPayload' = <<[itemTypeId |-> c.itemTypeId, fieldData |-> c.fieldData]>>
                   /\ fCreateCalls' = fCreateCalls + 1
                   /\ fResult' = <<>>
              ELSE /\ fpc' = "thrown"
                   /\ fPayload' = <<>>
                   /\ fCreateCalls' = fCreateCalls
                   /\ fResult' = <<c.err>>
  /\ UNCHANGED <<routerVars, dupVars>>

\* client.fields.create settles; the handler returns the response or throws
CreateSettles(outcomes) ==
  /\ fpc = "awaitCreate"
  /\ \E outcome \in outcomes :
       LET c == FieldHandlerResume(fArgs[1], outcome)
       IN  /\ fUpstream' = <<outcome>>
           /\ fpc' = IF c.kind = "return" THEN "returned" ELSE "thrown"
           /\ fResult' = IF c.kind = "return" THEN <<c.value>> ELSE <<c.err>>
  /\ UNCHANGED <<fArgs, fPayload, fCreateCalls, routerVars, dupVars>>

FieldDone ==
  /\ fpc \in {"returned", "thrown"}
  /\ fpc' = "idle" /\ fArgs' = <<>> /\ fPayload' = <<>> /\ fCreateCalls' = 0
  /\ fUpstream' = <<>> /\ fResult' = <<>>
  /\ UNCHANGED <<routerVars, dupVars>>

---------------------------------------------------------------------------
(* duplicateRecordHandler *)

IdNames  == <<"rec1", "rec2", "rec3", "rec4", "rec5">>
DupNames == <<"dup1", "dup2", "dup3", "dup4", "dup5">>

RecordIds == {IdNames[i] : i \in 1..NumIds}
NewIds    == {DupNames[i] : i \in 1..NumIds}
Titles    == {"Hello", "World"}

Item(id, title) == JSObj(("id" :> Str(id)) @@ ("title" :> Str(title)))

ConfirmationMessage(itemId, duplicatedItem) ==
  <<"Successfully duplicated record with ID '", itemId, "'. New record ID: '">>
  \o ToStr(Get(duplicatedItem, "id")) \o <<"'">>

\* a plausible slip: the returnOnlyConfirmation flag ignored
DuplicateHandlerResumeAlwaysFull(args, outcome) ==
  IF outcome.kind = "throw" THEN outcome
  ELSE IF ~Truthy(outcome.value)
  THEN Throw(JSError("Error", <<"Failed to duplicate record with ID '", args.itemId, "'.">>))
  ELSE Return(createResponse(JSONStringify(outcome.value)))

\* the handler from the settling of client.items.duplicate on
DuplicateHandlerResume(args, outcome) ==
  LET returnOnlyConfirmation ==
        IF args.returnOnlyConfirmation = <<>> THEN FALSE ELSE args.returnOnlyConfirmation[1]
  IN  IF outcome.kind = "throw" THEN outcome
      ELSE IF ~Truthy(outcome.value)
      THEN Throw(JSError("Error", <<"Failed to duplicate record with ID '", args.itemId, "'.">>))
      ELSE IF returnOnlyConfirmation
      THEN Return(createResponse(JSONStringify(
             JSObj(("success" :> JSBool(TRUE))
                   @@ ("message" :> JSStr(ConfirmationMessage(args.itemId, outcome.value)))))))
      ELSE Return(createResponse(JSONStringify(outcome.value)))

DupInputs ==
  {[itemId |-> id, returnOnlyConfirmation |-> r] : id \in RecordIds, r \in Opt(BOOLEAN)}

DuplicateOutcomes ==
  {Return(Item(id, t)) : id \in NewIds, t \in Titles}
  \cup {Return(JSNull), Return(JSUndef),
        Throw(JSError("ApiError", <<"404 ", "record not found">>))}

DupIdle == dpc = "idle" /\ dArgs = <<>> /\ dOutcome = <<>> /\ dResult = <<>>

\* the handler is called and awaits client.items.duplicate(itemId)
DupCall ==
  /\ dpc = "idle"
  /\ \E args \in DupInputs :
       /\ dArgs' = <<args>>
       /\ dpc' = "awaitDuplicate"
       /\ dOutcome' = <<>>
       /\ dResult' = <<>>
  /\ UNCHANGED <<routerVars, fieldVars>>

\* client.items.duplicate settles; the handler returns the response or throws
DuplicateSettles ==
  /\ dpc = "awaitDuplicate"
  /\ \E outcome \in DuplicateOutcomes :
       LET c == DuplicateHandlerResume(dArgs[1], outcome)
       IN  /\ dOutcome' = <<outcome>>
           /\ dpc' = IF c.kind = "return" THEN "returned" ELSE "thrown"
           /\ dResult' = IF c.kind = "return" THEN <<c.value>> ELSE <<c.err>>
  /\ UNCHANGED <<dArgs, routerVars, fieldVars>>

DupDone ==
  /\ dpc \in {"returned", "thrown"}
  /\ dpc' = "idle" /\ dArgs' = <<>> /\ dOutcome' = <<>> /\ dResult' = <<>>
  /\ UNCHANGED <<routerVars, fieldVars>>

---------------------------------------------------------------------------
(* Specifications *)

Init == RouterIdle /\ FieldIdle /\ DupIdle

NextRouter == RouteCall \/ HandlerSettles \/ RouteDone
SpecRouter == Init /\ [][NextRouter]_vars

NextField == FieldCall(FieldInputs) \/ CreateSettles(CreateOutcomes) \/ FieldDone
SpecField == Init /\ [][NextField]_vars

NextFieldUpstream == FieldCall(UpstreamInputs) \/ CreateSettles(UpstreamFailures) \/ FieldDone
SpecFieldUpstream == Init /\ [][NextFieldUpstream]_vars

NextDup == DupCall \/ DuplicateSettles \/ DupDone
SpecDup == Init /\ [][NextDup]_vars

---------------------------------------------------------------------------
(* Properties of the project router, checked under SpecRouter *)

\* the text of the response, when its content is a text
RespText ==
  IF rResp # <<>> /\ Get(rResp[1], "content").t = "string"
  THEN Get(rResp[1], "content").s ELSE <<>>

IsErrorEnvelope(resp) == Get(resp, "isError") = JSBool(TRUE)

EmptyBag == rArgs.t = "undefined" \/ (rArgs.t = "object" /\ DOMAIN rArgs.props = {})

NonEmptyBag == rArgs.t = "object" /\ DOMAIN rArgs.props # {}

Registered == \E i \in DOMAIN projectActionsList : projectActionsList[i] = rAction

GuidanceMark    == "PARAMETERS REQUIRED: You need to specify the parameters for the '"
ValidationMark  == "VALIDATION ERROR: Your parameters for '"
UnsupportedMark == "Error: Unsupported action '"

StartsWith(text, mark) == text # <<>> /\ Head(text) = mark

\* C1: a call with an empty argument bag (args omitted, or an object without
\* keys), whatever the action name and whatever the schema's parse would do,
\* returns the parameter-discovery guidance as an error envelope naming the
\* action; no handler is invoked and the response is neither the validation
\* error nor the unsupported-action error.
C1_EmptyArgsGuidance ==
  (rpc # "idle" /\ EmptyBag) =>
    /\ rpc = "returned"
    /\ IsErrorEnvelope(rResp[1])
    /\ StartsWith(RespText, GuidanceMark)
    /\ RespText = GuidanceText(rAction)
    /\ \E i \in DOMAIN RespText :
         RespText[i] = rAction /\ i > 1
    /\ ~StartsWith(RespText, ValidationMark)
    /\ ~StartsWith(RespText, UnsupportedMark)
    /\ ~Includes(RespText, <<"schema refinement threw">>)
    /\ rInvoked = <<>>

\* an unregistered action called with an object without keys, with a schema
\* whose parse would throw, has returned
C1_Witness ==
  /\ rpc = "returned" /\ rAction = "delete_project" /\ rFault = "parse"
  /\ rArgs.t = "object" /\ DOMAIN rArgs.props = {}

HandlerThrew == rOutcome # <<>> /\ rOutcome[1].kind = "throw"

\* C2: no exception escapes the callback.  Every call ends by returning an
\* envelope with a content; when a step failed (Object.keys on null args, a
\* throwing parse, a throwing or rejecting handler, the serialisation of the
\* handler's value, the rendering of the validation error) the envelope is an
\* error envelope whose text carries the message of the failure.
C2_NoExceptionEscapes ==
  /\ rpc # "escaped"
  /\ rpc = "returned" =>
       /\ HasKey(rResp[1], "content")
       /\ rArgs.t = "null" =>
            /\ IsErrorEnvelope(rResp[1])
            /\ Includes(RespText, <<"Cannot convert undefined or null to object">>)
       /\ (rOutcome = <<>> /\ NonEmptyBag /\ Registered /\ rFault = "parse") =>
            /\ IsErrorEnvelope(rResp[1])
            /\ Includes(RespText, <<"schema refinement threw">>)
       /\ (rOutcome = <<>> /\ NonEmptyBag /\ Registered /\ rFault = "format") =>
            /\ IsErrorEnvelope(rResp[1])
            /\ Includes(RespText, <<"Converting circular structure to JSON">>)
       /\ (HandlerThrew /\ rOutcome[1].err.name # "ZodError") =>
            /\ IsErrorEnvelope(rResp[1])
            /\ Includes(RespText, rOutcome[1].err.message)
       /\ (HandlerThrew /\ rOutcome[1].err.name = "ZodError") =>
            /\ IsErrorEnvelope(rResp[1])
            /\ IF rFault = "format"
               THEN Includes(RespText, <<"Converting circular structure to JSON">>)
               ELSE \A i \in DOMAIN rOutcome[1].err.issues :
                      Includes(RespText, rOutcome[1].err.issues[i].message)
       /\ (rOutcome # <<>> /\ rOutcome[1].kind = "return" /\ rOutcome[1].value.t = "bigint") =>
            /\ IsErrorEnvelope(rResp[1])
            /\ Includes(RespText, <<"Do not know how to serialize a BigInt">>)

\* the handler rejected with a ZodError and rendering it threw in the inner
\* catch block: the call has returned all the same
C2_Witness ==
  /\ rpc = "returned" /\ HandlerThrew
  /\ rOutcome[1].err.name = "ZodError" /\ rFault = "format"

\* what schema.parse decides, stated on the argument object
ParseSucceeds ==
  /\ rFault # "parse"
  /\ \A i \in DOMAIN projectSchemas[rAction].fields :
       LET f == projectSchemas[rAction].fields[i]
       IN  IF f.name \in DOMAIN rArgs.props
           THEN rArgs.props[f.name].t = f.type
           ELSE ~f.required

HandlerOf(action) ==
  CASE action = "get_info"             -> "getProjectInfoHandler"
    [] action = "update_site_settings" -> "updateSiteSettingsHandler"
    [] OTHER                           -> "none"

\* C3: a handler is invoked exactly when the three gates passed in order (args
\* not empty, the action has a schema, parse succeeded); then one handler is
\* invoked once, the one of the action, with the validated arguments.  An action
\* the registry lacks is never dispatched and, past the empty-args gate, gets
\* the 'Unsupported action' error listing projectActionsList; a registered
\* action never gets that error.
C3_DispatchIffGatesPassed ==
  rpc # "idle" =>
    /\ Len(rInvoked) <= 1
    /\ (rInvoked # <<>>) <=> (NonEmptyBag /\ Registered /\ ParseSucceeds)
    /\ rInvoked # <<>> =>
         /\ rInvoked[1].handler = HandlerOf(rAction)
         /\ DOMAIN rInvoked[1].args.props \subseteq DOMAIN rArgs.props
         /\ \A k \in DOMAIN rInvoked[1].args.props : rInvoked[1].args.props[k] = rArgs.props[k]
    /\ ~Registered => rInvoked = <<>>
    /\ (~Registered /\ NonEmptyBag) =>
         /\ rpc = "returned"
         /\ IsErrorEnvelope(rResp[1])
         /\ RespText = <<UnsupportedMark, rAction, "'. Valid actions are: ",
                         "get_info", ", ", "update_site_settings">>
    /\ (Registered /\ rpc = "returned") => ~StartsWith(RespText, UnsupportedMark)

\* update_site_settings passed the gates and its handler is running
C3_Witness ==
  /\ rpc = "awaitHandler" /\ rAction = "update_site_settings"
  /\ rInvoked = <<[handler |-> "updateSiteSettingsHandler",
                   args |-> JSObj(("apiToken" :> JSStr(<<"v">>)) @@ ("settings" :> JSObj(<<>>)))]>>
  /\ "extra" \in DOMAIN rArgs.props

\* the declared fields the argument object violates
Violating ==
  {projectSchemas[rAction].fields[i].name : i \in
     {j \in DOMAIN projectSchemas[rAction].fields :
        LET f == projectSchemas[rAction].fields[j]
        IN  IF f.name \in DOMAIN rArgs.props
            THEN rArgs.props[f.name].t # f.type
            ELSE f.required}}

ValidationFailed ==
  /\ rpc = "returned" /\ NonEmptyBag /\ Registered /\ rFault = "none" /\ Violating # {}

\* positions of the text that start a '- <path>: <message>' line
LineStarts == {i \in DOMAIN RespText : RespText[i] = "- "}

\* C4: when parse rejects a non-empty argument bag, the error envelope lists one
\* '- <path>: <message>' line per violating field and none for another field,
\* then, after the lines, the JSON rendering of the action's schema (which
\* names its declared fields); no handler is invoked.
C4_ValidationErrorListsViolations ==
  ValidationFailed =>
    /\ IsErrorEnvelope(rResp[1])
    /\ StartsWith(RespText, ValidationMark)
    /\ Cardinality(LineStarts) = Cardinality(Violating)
    /\ \A i \in LineStarts : RespText[i + 1] \in Violating /\ RespText[i + 2] = ": "
    /\ \A f \in Violating : \E i \in LineStarts : RespText[i + 1] = f
    /\ \E k \in DOMAIN RespText :
         LET rendering == JSONStringify(formatSchemaForDisplay(projectSchemas[rAction])).s
         IN  /\ RespText[k] = "\n\nREQUIRED PARAMETERS FOR '"
             /\ RespText[k + 1] = ToUpperCase(rAction)
             /\ \A i \in LineStarts : i < k
             /\ SubSeq(RespText, k + 3, k + 2 + Len(rendering)) = rendering
             /\ \A j \in DOMAIN projectSchemas[rAction].fields :
                  Includes(rendering, <<projectSchemas[rAction].fields[j].name>>)
    /\ rInvoked = <<>>

\* the schema requires apiToken and settings, the input lacks only settings
C4_Witness ==
  /\ ValidationFailed /\ rAction = "update_site_settings"
  /\ DOMAIN rArgs.props = {"apiToken", "environment"}
  /\ Violating = {"settings"}

HandlerValue == rOutcome[1].value

Serializable(v) == CanStringify(v)

\* the lines of a validationErrors list, as the envelope shows them
Bullets(verrs) ==
  Join([i \in DOMAIN verrs |->
          <<"  - ">>
          \o (IF HasKey(verrs[i], "field") THEN verrs[i].props["field"].s ELSE <<"General">>)
          \o <<": ">> \o verrs[i].props["message"].s], <<"\n">>)

---------------------------------------------------------------------------
(* Properties of createFieldHandler *)

CallerArgs       == fArgs[1]
CallerValidators == CallerArgs.validators
CallerAppearance == CallerArgs.appearance
SentAppearance   == fPayload[1].fieldData.appearance

\* C6 (as claimed): every failure of client.fields.create whose message
\* contains "item_item_type" is rewritten to the item_item_type error, whatever
\* else the message contains.
C6_ItemItemTypeAlwaysRewritten ==
  (fpc = "thrown" /\ fUpstream # <<>>
   /\ Includes(fUpstream[1].err.message, <<"item_", "item_type">>)) =>
    fResult[1].message =
      <<"The item type IDs provided in 'item_item_type' are invalid or inaccessible. Verify the IDs and try again.">>

\* validators declares key with a value that is not falsy
Declares(key) == HasKey(CallerValidators, key) /\ Truthy(CallerValidators.props[key])

\* the item_types list under a validator key is missing, no list, or empty
NoItemTypes(key) ==
  LET d == CallerValidators.props[key]
  IN  ~HasKey(d, "item_types") \/ d.props["item_types"].t # "array"
      \/ d.props["item_types"].items = <<>>

ChoiceEditorCall ==
  /\ CallerArgs.field_type = "string" /\ HasKey(CallerAppearance, "editor")
  /\ CallerAppearance.props["editor"].s \in {<<"string_radio_group">>, <<"string_select">>}

\* the values the selection editor offers
Offered ==
  LET ps == IF HasKey(CallerAppearance, "parameters")
            THEN CallerAppearance.props["parameters"] ELSE JSObj(<<>>)
      list == IF HasKey(ps, "radios") THEN ps.props["radios"].items
              ELSE IF HasKey(ps, "options") THEN ps.props["options"].items ELSE <<>>
  IN  [i \in DOMAIN list |-> list[i].props["value"]]

\* the business rules in the order the claim gives: <<violated, message>>
RuleTable ==
  <<
    <<CallerArgs.field_type = "rich_text" /\ ~Declares("rich_text_blocks"), MsgRichTextBlocks>>,
    <<CallerArgs.field_type = "structured_text" /\ ~Declares("structured_text_blocks"),
      MsgStructuredTextBlocks>>,
    <<CallerArgs.field_type = "single_block" /\ ~Declares("single_block_blocks"),
      MsgSingleBlockBlocks>>,
    <<ChoiceEditorCall /\ ~Declares("enum"),
      <<"Missing required validator '", "enum", "' for string field with ">>
      \o (IF ChoiceEditorCall THEN CallerAppearance.props["editor"].s ELSE <<>>)
      \o <<" editor. ", "Add { \"enum\": { \"values\": [...] } } to validators, and ensure values match the options.">> >>,
    <<ChoiceEditorCall /\ Declares("enum")
      /\ Get(CallerValidators.props["enum"], "values").t = "array"
      /\ Offered # CallerValidators.props["enum"].props["values"].items,
      MsgEnumMismatch>>,
    <<CallerArgs.field_type = "link" /\ ~Declares("item_item_type"), MsgItemItemTypeMissing>>,
    <<CallerArgs.field_type = "link" /\ Declares("item_item_type") /\ NoItemTypes("item_item_type"),
      MsgItemItemTypeEmpty>>,
    <<CallerArgs.field_type = "links" /\ ~Declares("items_item_type"), MsgItemsItemTypeMissing>>,
    <<CallerArgs.field_type = "links" /\ Declares("items_item_type") /\ NoItemTypes("items_item_type"),
      MsgItemsItemTypeEmpty>>,
    <<CallerArgs.field_type \in {"gallery", "links", "rich_text"}
      /\ HasKey(CallerValidators, "required"),
      MsgRequiredUnsupported>>,
    <<CallerArgs.field_type = "slug" /\ ~Declares("slug_title_field"), MsgSlugTitleField>>
  >>

ViolatedRules == {i \in DOMAIN RuleTable : RuleTable[i][1]}

FirstViolated == CHOOSE i \in ViolatedRules : \A j \in ViolatedRules : i <= j

\* C7: when the call violates one or more business rules, the handler throws
\* the error of the first violated rule, in the order rich_text_blocks,
\* structured_text_blocks, single_block_blocks, enum missing, enum mismatch,
\* item_item_type missing, empty, items_item_type missing, empty, 'required'
\* unsupported, slug_title_field, and client.fields.create is not called.  A
\* rich_text field without rich_text_blocks fails with the message that names
\* rich_text_blocks and shows its JSON shape, whatever else the call carries.
C7_FirstViolatedRuleThrown ==
  (fArgs # <<>> /\ ViolatedRules # {}) =>
    /\ fpc = "thrown"
    /\ fUpstream = <<>> /\ fCreateCalls = 0 /\ fPayload = <<>>
    /\ fResult[1].message = RuleTable[FirstViolated][2]
    /\ (CallerArgs.field_type = "rich_text" /\ ~Declares("rich_text_blocks")) =>
         /\ Includes(fResult[1].message, <<"rich_text_blocks">>)
         /\ Includes(fResult[1].message,
              <<"Add { \"rich_text_blocks\": { \"item_types\": [\"block_model_id1\", \"block_model_id2\"] } } to validators.">>)

\* a rich_text field that lacks rich_text_blocks and carries the 'required'
\* validator, itself forbidden on rich_text, has been refused
C7_Witness ==
  /\ fpc = "thrown" /\ fArgs # <<>>
  /\ CallerArgs.field_type = "rich_text"
  /\ HasKey(CallerValidators, "required") /\ ~HasKey(CallerValidators, "rich_text_blocks")
  /\ ViolatedRules = {1, 10}

LatLonEditorCall ==
  /\ fArgs # <<>> /\ CallerArgs.field_type = "lat_lon"
  /\ Get(CallerAppearance, "editor") = JSStr(<<"lat_lon_editor">>)

\* C8: a lat_lon field given the editor 'lat_lon_editor' is sent to
\* client.fields.create with the editor 'map'; the caller's parameters and
\* addons are sent as given (an absent addons list as an empty one) and no
\* other appearance property appears.
C8_LatLonEditorCorrected ==
  LatLonEditorCall =>
    /\ fCreateCalls = 1 /\ fPayload # <<>>
    /\ Get(SentAppearance, "editor") = JSStr(<<"map">>)
    /\ Get(SentAppearance, "editor") # JSStr(<<"lat_lon_editor">>)
    /\ Get(SentAppearance, "parameters") = Get(CallerAppearance, "parameters")
    /\ Get(SentAppearance, "addons") =
         (IF HasKey(CallerAppearance, "addons")
          THEN CallerAppearance.props["addons"] ELSE JSArr(<<>>))
    /\ DOMAIN SentAppearance.props = DOMAIN CallerAppearance.props \cup {"addons"}

\* such a call, with parameters and an addon of its own, has been sent
C8_Witness ==
  /\ LatLonEditorCall /\ fpc = "awaitCreate"
  /\ HasKey(Get(CallerAppearance, "parameters"), "placeholder")
  /\ Get(CallerAppearance, "addons") = JSArr(<<JSObj("id" :> JSStr(<<"addon1">>))>>)

ColorSent == fPayload # <<>> /\ CallerArgs.field_type = "color"

\* C9: the appearance sent for a color field has the editor 'color_picker'
\* whatever the caller's editor, parameters.enable_alpha false unless the
\* caller's parameters set enable_alpha (then that value), and an addons list:
\* the caller's, or an empty one.
C9_ColorAppearance ==
  ColorSent =>
    LET given == Get(CallerAppearance, "parameters")
    IN  /\ Get(SentAppearance, "editor") = JSStr(<<"color_picker">>)
        /\ Get(Get(SentAppearance, "parameters"), "enable_alpha") =
             (IF HasKey(given, "enable_alpha")
              THEN given.props["enable_alpha"] ELSE JSBool(FALSE))
        /\ HasKey(SentAppearance, "addons")
        /\ SentAppearance.props["addons"].t = "array"
        /\ SentAppearance.props["addons"] =
             (IF HasKey(CallerAppearance, "addons")
              THEN CallerAppearance.props["addons"] ELSE JSArr(<<>>))

\* a color field given another editor, enable_alpha: true and no addons
C9_Witness ==
  /\ ColorSent /\ fpc = "awaitCreate"
  /\ Get(CallerAppearance, "editor") = JSStr(<<"wysiwyg">>)
  /\ Get(Get(CallerAppearance, "parameters"), "enable_alpha") = JSBool(TRUE)
  /\ ~HasKey(CallerAppearance, "addons")

\* the message client.fields.create failed with
UpstreamMessage == fUpstream[1].err.message

\* the message carries one of the signatures the catch block looks for
MatchesKnownSignature ==
  \E sig \in {<<"addons">>, <<"rich_text_blocks">>, <<"start_collapsed">>,
              <<"item_", "item_type">>, <<"items_", "item_type">>,
              <<"appearance.editor">>, <<"INVALID_FORMAT">>, <<"INVALID_FIELD">>} :
     Includes(UpstreamMessage, sig)

\* C11 (as claimed): a failure of client.fields.create whose message matches
\* none of the known signatures is rethrown, for every field_type, as
\* 'Error creating field: ' followed by the upstream message.
C11_UnmatchedPassesThrough ==
  (fpc = "thrown" /\ fUpstream # <<>> /\ ~MatchesKnownSignature) =>
    /\ fResult[1].message = <<"Error creating field: ">> \o UpstreamMessage
    /\ Includes(fResult[1].message, UpstreamMessage)

AppearanceGiven == Truthy(CallerAppearance)

\* what the claim says of every payload, apart from the parameters synthesized
\* when the caller gives no appearance
EditorAndAddonsSent ==
  LET ft == CallerArgs.field_type
  IN  /\ SentAppearance.t = "object"
      /\ HasKey(SentAppearance, "editor") /\ SentAppearance.props["editor"].t = "string"
      /\ HasKey(SentAppearance, "addons") /\ SentAppearance.props["addons"].t = "array"
      /\ (AppearanceGiven /\ HasKey(CallerAppearance, "addons")) =>
           SentAppearance.props["addons"] = CallerAppearance.props["addons"]
      /\ (AppearanceGiven /\ ~HasKey(CallerAppearance, "addons")) =>
           SentAppearance.props["addons"] = JSArr(<<>>)
      /\ (AppearanceGiven /\ ft \notin {"color", "structured_text"} /\ ~LatLonEditorCall) =>
           SentAppearance.props["editor"] = CallerAppearance.props["editor"]
      /\ ~AppearanceGiven =>
           /\ SentAppearance.props["editor"] = JSStr(<<getDefaultEditor(ft)>>)
           /\ ft = "string"       => SentAppearance.props["editor"] = JSStr(<<"single_line">>)
           /\ ft = "lat_lon"      => SentAppearance.props["editor"] = JSStr(<<"map">>)
           /\ ft = "date_time"    => SentAppearance.props["editor"] = JSStr(<<"date_time_picker">>)
           /\ ft = "single_block" => SentAppearance.props["editor"] = JSStr(<<"framed_single_block">>)
           /\ ft = "unknown_kind" => SentAppearance.props["editor"] = JSStr(<<"default_editor">>)
           /\ SentAppearance.props["addons"] = JSArr(<<>>)

\* a call that violates no business rule is sent: an absent addons list is no
\* cause of failure
SentUnlessRuleViolated ==
  (fArgs # <<>> /\ ViolatedRules = {}) => (fPayload # <<>> /\ fCreateCalls = 1)

\* the parameters sent when the caller gives no appearance
SynthesizedParameters(ft) ==
  CASE ft = "color"           -> JSObj("enable_alpha" :> JSBool(FALSE))
    [] ft = "structured_text" -> JSObj(("blocks_start_collapsed" :> JSBool(FALSE))
                                       @@ ("show_links_target_blank" :> JSBool(TRUE))
                                       @@ ("show_links_meta_editor" :> JSBool(TRUE)))
    [] OTHER                  -> JSObj(<<>>)

\* C12 (as claimed): every payload sent to client.fields.create carries an
\* appearance with an editor and an addons list (the caller's, or an empty one,
\* whose absence never fails the call); the caller's editor is kept except for
\* color, structured_text and the lat_lon rename; and without any appearance
\* from the caller the appearance is the default editor of the field_type with
\* empty parameters and empty addons.
C12_AppearanceAlwaysComplete ==
  /\ SentUnlessRuleViolated
  /\ fPayload # <<>> =>
       /\ EditorAndAddonsSent
       /\ ~AppearanceGiven => Get(SentAppearance, "parameters") = JSObj(<<>>)

\* C12 (amended): as claimed, except that without any appearance from the
\* caller the parameters are empty only for kinds other than color and
\* structured_text: a color field is sent { enable_alpha: false } and a
\* structured_text field its three defaults.
C12_AppearanceCompleteButParameters ==
  /\ SentUnlessRuleViolated
  /\ fPayload # <<>> =>
       /\ EditorAndAddonsSent
       /\ ~AppearanceGiven =>
            Get(SentAppearance, "parameters") = SynthesizedParameters(CallerArgs.field_type)

\* a structured_text field without appearance has been sent with its defaults
C12_Witness ==
  /\ fpc = "awaitCreate" /\ fPayload # <<>>
  /\ CallerArgs.field_type = "structured_text" /\ CallerAppearance = JSUndef
  /\ Get(Get(SentAppearance, "parameters"), "blocks_start_collapsed") = JSBool(FALSE)
  /\ Get(SentAppearance, "addons") = JSArr(<<>>)

\* validators.enum declares a list of values equal, element by element, to the
\* values the selection editor offers
EnumEqualsOffered ==
  LET values == Get(Get(CallerValidators, "enum"), "values")
  IN  values.t = "array" /\ values.items = Offered

\* C13 (as claimed): a string field with the editor string_radio_group or
\* string_select reaches client.fields.create only if validators.enum declares
\* a list of values equal, in order and length, to the option values of
\* appearance.parameters (radios, else options); in every other case (enum
\* absent, values no list, another length, order or element) the handler throws
\* before the create call an error naming the missing enum or the mismatch.
C13_EnumMatchesOptionsOrFails ==
  (fArgs # <<>> /\ ChoiceEditorCall /\ ~EnumEqualsOffered) =>
    /\ fpc = "thrown"
    /\ fCreateCalls = 0 /\ fPayload = <<>> /\ fUpstream = <<>>
    /\ \/ Includes(fResult[1].message, <<"Missing required validator '", "enum">>)
       \/ fResult[1].message = MsgEnumMismatch

---------------------------------------------------------------------------
(* Properties of duplicateRecordHandler, checked under SpecDup *)

DupText == Get(dResult[1], "content").s

\* C10: when client.items.duplicate returns an item, the handler returns, with
\* returnOnlyConfirmation true, the confirmation message, which holds the
\* original id and the new id and nothing else of the item, and, with the flag
\* false or absent, the item as pretty-printed JSON.  When it returns no item
\* the handler throws an error that names itemId.
C10_DuplicateResponse ==
  (dOutcome # <<>> /\ dOutcome[1].kind = "return") =>
    LET item == dOutcome[1].value
        args == dArgs[1]
    IN  IF item.t = "object"
        THEN /\ dpc = "returned"
             /\ IF args.returnOnlyConfirmation = <<TRUE>>
                THEN /\ Includes(DupText, <<"Successfully duplicated record with ID '", args.itemId>>)
                     /\ Includes(DupText, <<"'. New record ID: '">> \o item.props["id"].s \o <<"'">>)
                     /\ ~Includes(DupText, item.props["title"].s)
                     /\ ~Includes(DupText, <<"title">>)
                     /\ ~Includes(DupText, Pretty(item, 0))
                ELSE /\ DupText = Pretty(item, 0)
                     /\ DupText = <<"{", "\n", "  ", "\"", "id", "\"", ": ", "\"">>
                                  \o item.props["id"].s
                                  \o <<"\"", ",", "\n", "  ", "\"", "title", "\"", ": ", "\"">>
                                  \o item.props["title"].s \o <<"\"", "\n", "}">>
        ELSE /\ dpc = "thrown"
             /\ Includes(dResult[1].message, <<args.itemId>>)
             /\ Head(dResult[1].message) = "Failed to duplicate record with ID '"

\* a duplication confirmed without its payload
C10_Witness ==
  /\ dpc = "returned" /\ dArgs[1].returnOnlyConfirmation = <<TRUE>>
  /\ dOutcome[1].value.t = "object"

=============================================================================
